---- MODULE Spec2Model ----
(***************************************************************************)
(* A model of the agent's execution core:                                  *)
(*   - agent/base.py : Base.execute / run_subprocess / parse_output /      *)
(*                     remove_crs (the command executor)                   *)
(*   - agent/job.py  : Action / Step / Job, the step and job wrappers,     *)
(*                     JobModel / StepModel (the persistent store)         *)
(*   - agent/bench.py: the entity that exposes job_record / step_record    *)
(*                     and whose operations are step- and job-wrapped      *)
(*                                                                         *)
(* Several specifications share the module.  ExecSpec runs the executor on *)
(* every bounded character stream and exit status.  CodecSpec writes and   *)
(* reads back the enqueue payload of every bounded call.  Spec runs the    *)
(* instrumentation: a request handler and a worker that call step- and     *)
(* job-wrapped operations against the store and the queue; LiveSpec adds   *)
(* fairness, TimeSpec a clock that advances, ConcSpec a second worker.     *)
(***************************************************************************)
EXTENDS Integers, Sequences, FiniteSets, TLC

\* ------------------------------------------------------------------ bounds
MaxStream == 4     \* longest child output, in characters
MaxRetcode == 2    \* exit statuses 0..MaxRetcode
MaxJobs == 2       \* rows of the JobModel table
MaxSteps == 2      \* rows of the StepModel table
MaxDepth == 3      \* nesting of wrapped calls in one process
MaxInvocations == 5 \* wrapper invocations in one run of the system
MaxDeliveries == 2 \* times the broker hands one queue entry to a worker
MaxArgs == 1       \* positional arguments of one job-wrapped call
MaxTime == 1       \* readings of the clock: 0..MaxTime

VARIABLES
    \* ---- command executor (agent/base.py)
    epc,        \* position of the execute call: "idle","parse","poll","done"
    child,      \* the whole stream the child process writes, and its exit status
    unread,     \* what process.stdout has not yet handed to read(1)
    lines,      \* parse_output: committed lines
    line,       \* parse_output: the in-progress line
    parsed,     \* parse_output's return value
    outcome,    \* what execute returned or raised
    etime,      \* the clock that datetime.now() reads during execute
    edata,      \* execute's local `data` as first built: its start
    \* ---- the enqueue payload (Job.enqueue's json.dumps)
    cpc,        \* position: "idle", "call", "stored", "loaded"
    call,       \* the job-wrapped call: function, args, kwargs
    payload,    \* the JSON document Job.enqueue writes to model.data
    decoded,    \* what reading the payload back gives
    \* ---- instrumentation (agent/job.py)
    jobs,       \* the JobModel table: row id -> the columns of JobModel
    steps,      \* the StepModel table: row id -> the columns of StepModel
    queue,      \* the broker: job id -> the pickled call and its deliveries
    stack,      \* per process: the wrapper invocations in progress
    jobRec,     \* per process: instance.job_record.model (in memory)
    stepRec,    \* per process: instance.step_record.model (in memory)
    invoked,    \* wrapper invocations begun so far
    now,        \* the clock that datetime.datetime.now() reads
    last        \* the wrapper invocation that ended in the step just taken, if any

execVars == <<epc, child, unread, lines, line, parsed, outcome, etime, edata>>
jobVars == <<jobs, steps, queue, stack, jobRec, stepRec, invoked, now, last>>
codecVars == <<cpc, call, payload, decoded>>
vars == <<execVars, codecVars, jobVars>>

\* ------------------------------------------------------------ characters
CR == "CR"
LF == "LF"
Chars == {"a", "b", CR, LF}

RECURSIVE SeqsUpTo(_, _)
SeqsUpTo(S, n) ==
    IF n = 0 THEN {<<>>}
    ELSE LET shorter == SeqsUpTo(S, n - 1)
         IN  shorter \cup {Append(s, c) : s \in {t \in shorter : Len(t) = n - 1}, c \in S}

Last(s) == s[Len(s)]
Front(s) == SubSeq(s, 1, Len(s) - 1)

\* "\n".join(lines): a text is a sequence of characters
RECURSIVE Join(_)
Join(ls) ==
    IF ls = <<>> THEN <<>>
    ELSE IF Len(ls) = 1 THEN ls[1]
    ELSE ls[1] \o <<LF>> \o Join(Tail(ls))

\* str.strip(): whitespace removed at both ends
IsSpace(c) == c \in {CR, LF}
RECURSIVE LStrip(_)
LStrip(s) == IF s # <<>> /\ IsSpace(Head(s)) THEN LStrip(Tail(s)) ELSE s
RECURSIVE RStrip(_)
RStrip(s) == IF s # <<>> /\ IsSpace(Last(s)) THEN RStrip(Front(s)) ELSE s
Strip(s) == RStrip(LStrip(s))

\* ------------------------------------------------------- Base.parse_output
\* One iteration of the read loop on character c.
ParseCR(ls, ln) ==
    \* "Overwrite last line": the committed last line is replaced by the
    \* in-progress one, when there is a committed line at all
    [lines |-> IF ls # <<>> THEN [ls EXCEPT ![Len(ls)] = ln] ELSE ls,
     line  |-> <<>>]

ParseLF(ls, ln) == [lines |-> Append(ls, ln), line |-> <<>>]

ParseOther(ls, ln, c) == [lines |-> ls, line |-> Append(ln, c)]

ParseChar(ls, ln, c) ==
    IF c = CR THEN ParseCR(ls, ln)
    ELSE IF c = LF THEN ParseLF(ls, ln)
    ELSE ParseOther(ls, ln, c)

\* ---------------------------------------------------------- Base.remove_crs
\* subprocess.check_output(["col", "-b"], input=input) writes input to a
\* binary pipe.  parse_output returns str, so a non-empty input raises
\* TypeError (memoryview: a bytes-like object is required); an empty input
\* is never written, col prints nothing and the result is "".
RemoveCrs(input) ==
    IF input = <<>> THEN [raised |-> "", output |-> Strip(<<>>)]
    ELSE [raised |-> "TypeError", output |-> <<>>]

\* output.decode().strip() on a str: str has no decode
DecodeStrip(input) == [raised |-> "AttributeError", output |-> <<>>]

Normalize(input, remove_crs) ==
    IF remove_crs THEN RemoveCrs(input) ELSE DecodeStrip(input)

\* ------------------------------------------------------------ Base.execute
BaseKeys == {"command", "directory", "start"}
ResultKeys == BaseKeys \cup {"duration", "end", "output"}
FailureKeys == ResultKeys \cup {"returncode", "traceback"}

\* A key that the data does not hold
Absent == -1

NoOutcome ==
    [kind |-> "none", keys |-> {}, output |-> <<>>, returncode |-> 0,
     start |-> Absent, end |-> Absent, duration |-> Absent]

\* What execute does with run_subprocess's output and the exit status;
\* start and end are the two readings of the clock.
ExecuteOutcome(output, retcode, remove_crs, start, end) ==
    LET norm == Normalize(output, remove_crs)
    IN  IF norm.raised # ""
        THEN \* the error of the normalisation leaves execute as it is
             [NoOutcome EXCEPT !.kind = norm.raised]
        ELSE IF retcode # 0
        THEN \* except subprocess.CalledProcessError: raise AgentException(data)
             [kind |-> "AgentException", keys |-> FailureKeys,
              output |-> norm.output, returncode |-> retcode,
              start |-> start, end |-> end, duration |-> end - start]
        ELSE [kind |-> "CommandResult", keys |-> ResultKeys,
              output |-> norm.output, returncode |-> 0,
              start |-> start, end |-> end, duration |-> end - start]

\* ------------------------------------------------------------- processes
Handlers == {"h1"}             \* request handlers: outside worker context
Workers == {"w1", "w2"}        \* rq workers: get_current_job() is set
Procs == Handlers \cup Workers

\* A faulty test of the worker context: it holds only for the call the
\* worker itself makes, not for calls made by the running body
InWorkerOutermost(p) == p \in Workers /\ stack[p] = <<>>

\* get_current_job(connection=connection()): a worker only runs code as
\* part of a queued job, a request handler never does
InWorker(p) == p \in Workers

\* The job-wrapped and step-wrapped operations of the entity
JobOps == {[name |-> "New Site", function |-> "new_site"],
           [name |-> "Archive Site", function |-> "archive_site"]}
StepOps == {"Bench Setup NGINX"}
Results == {"r1"}              \* what an operation body may return
BodyErrors == {"AgentException", "Exception"}

\* ------------------------------------------------- values and exceptions
\* What a call hands back: a returned value, a returned record id, or a
\* raised exception (v its class, id the depth of the frame that raised it)
Nothing == [t |-> "none", v |-> "", id |-> 0]
Value(v) == [t |-> "value", v |-> v, id |-> 0]
Id(i) == [t |-> "id", v |-> "", id |-> i]
Exc(kind, at) == [t |-> "exc", v |-> kind, id |-> at]

\* ------------------------------------------------------ JobModel/StepModel
\* A DateTimeField / TimeField that holds no value (null=True)
None == -1

NoModel ==
    [id |-> 0, name |-> "", status |-> "", data |-> <<>>,
     enqueue |-> None, start |-> None, end |-> None, duration |-> None]
NoStepModel ==
    [id |-> 0, name |-> "", job |-> 0, status |-> "", data |-> <<>>,
     start |-> None, end |-> None, duration |-> None]
Terminal == {"Success", "Failure"}

JobRow(m) ==
    [name |-> m.name, status |-> m.status, data |-> m.data,
     enqueue |-> m.enqueue, start |-> m.start, end |-> m.end,
     duration |-> m.duration]
StepRow(m) ==
    [name |-> m.name, job |-> m.job, status |-> m.status, data |-> m.data,
     start |-> m.start, end |-> m.end, duration |-> m.duration]

\* A faulty save: a model without id is given its id but no row is stored
SaveJobSkipsInsert(table, m) ==
    IF m.id = 0 THEN table
    ELSE [table EXCEPT ![m.id] = JobRow(m)]

\* A faulty save: the update of a stored model goes to the first row
SaveJobFirstRow(table, m) ==
    IF m.id = 0 THEN Append(table, JobRow(m))
    ELSE [table EXCEPT ![1] = JobRow(m)]

\* instance.model.save(): a model without id is inserted and receives the
\* next id, a model with an id overwrites every column of its row
SaveJob(table, m) ==
    IF m.id = 0 THEN Append(table, JobRow(m))
    ELSE [table EXCEPT ![m.id] = JobRow(m)]
SavedJob(table, m) == IF m.id = 0 THEN [m EXCEPT !.id = Len(table) + 1] ELSE m

SaveStep(table, m) ==
    IF m.id = 0 THEN Append(table, StepRow(m))
    ELSE [table EXCEPT ![m.id] = StepRow(m)]
SavedStep(table, m) == IF m.id = 0 THEN [m EXCEPT !.id = Len(table) + 1] ELSE m

\* ------------------------------------------------------------------ Action
\* json.dumps(data, default=str) of what the wrapper passes
ResultData(v) == <<"result", v>>
\* e.data of the AgentException that execute raises: the keys of its data
CommandFailureData ==
    <<"command", "directory", "duration", "end", "output", "returncode",
      "start", "traceback">>

\* A faulty wrapper: every error is recorded by its stack trace alone
FailureDataTraceOnly(e) == <<"traceback">>

\* failure(e.data) for an AgentException, else
\* failure({"traceback": "".join(traceback.format_exc())})
FailureData(e) ==
    IF e.v = "AgentException" THEN CommandFailureData
    ELSE <<"traceback">>

\* A faulty Action.failure: the payload is stored, the status is not
FailureKeepsStatus(m, data) == [m EXCEPT !.data = data]

\* Action.success(data) / Action.failure(data) on the model in memory,
\* before they call end()
Success(m, data) == [m EXCEPT !.status = "Success", !.data = data]
Failure(m, data) == [m EXCEPT !.data = data, !.status = "Failure"]

\* Action.end() at time t: end = now, duration = end - start
End(m, t) == [m EXCEPT !.end = t, !.duration = t - m.start]

\* A faulty Job.start(): the status is left as it was
JobStartKeepsStatus(m, t) == [m EXCEPT !.start = t]

\* Job.start() at time t: the model in memory becomes Running
JobStart(m, t) == [m EXCEPT !.start = t, !.status = "Running"]

\* A faulty Job.enqueue: the record is created already Running
JobEnqueueRunning(op, args, t) ==
    [NoModel EXCEPT !.name = op.name, !.status = "Running", !.enqueue = t,
                    !.data = <<"call", op.function, args>>]

\* Job.enqueue(name, function, args, kwargs) at time t: a new model
JobEnqueue(op, args, t) ==
    [NoModel EXCEPT !.name = op.name, !.status = "Pending", !.enqueue = t,
                    !.data = <<"call", op.function, args>>]

\* A faulty Step.start: the step is attached to the first job row
StepStartFirstJob(name, job, t) ==
    [NoStepModel EXCEPT !.name = name, !.job = 1, !.start = t,
                        !.status = "Running"]

\* Step.start(name, job) at time t: a new model
StepStart(name, job, t) ==
    [NoStepModel EXCEPT !.name = name, !.job = job, !.start = t,
                        !.status = "Running"]

\* ---------------------------------------------------- the enqueue payload
\* Python values a caller may pass: t is the type, s the text of a scalar,
\* keys/items the content of a container
PyStr(s) == [t |-> "str", s |-> s, keys |-> <<>>, items |-> <<>>]
PyInt(s) == [t |-> "int", s |-> s, keys |-> <<>>, items |-> <<>>]
PyDatetime(s) == [t |-> "datetime", s |-> s, keys |-> <<>>, items |-> <<>>]
PyTuple(items) == [t |-> "tuple", s |-> "", keys |-> <<>>, items |-> items]
PyList(items) == [t |-> "list", s |-> "", keys |-> <<>>, items |-> items]
PyDict(keys, items) == [t |-> "dict", s |-> "", keys |-> keys, items |-> items]

\* JSON documents
JsonString(s) == [t |-> "string", s |-> s, keys |-> <<>>, items |-> <<>>]
JsonNumber(s) == [t |-> "number", s |-> s, keys |-> <<>>, items |-> <<>>]
JsonArray(items) == [t |-> "array", s |-> "", keys |-> <<>>, items |-> items]
JsonObject(keys, items) == [t |-> "object", s |-> "", keys |-> keys, items |-> items]

\* json.dumps(value, default=str): containers become arrays and objects,
\* object keys become strings, and a value json cannot encode is replaced
\* by str(value)
RECURSIVE JsonDumps(_)
JsonDumps(v) ==
    CASE v.t = "str" -> JsonString(v.s)
      [] v.t = "int" -> JsonNumber(v.s)
      [] v.t \in {"tuple", "list"} ->
            JsonArray([i \in 1..Len(v.items) |-> JsonDumps(v.items[i])])
      [] v.t = "dict" ->
            JsonObject([i \in 1..Len(v.keys) |-> v.keys[i].s],
                       [i \in 1..Len(v.items) |-> JsonDumps(v.items[i])])
      [] OTHER -> JsonString(v.s)

\* json.loads(document): the reading of a document json.dumps wrote
RECURSIVE JsonLoads(_)
JsonLoads(d) ==
    CASE d.t = "string" -> PyStr(d.s)
      [] d.t = "number" -> PyInt(d.s)
      [] d.t = "array" ->
            PyList([i \in 1..Len(d.items) |-> JsonLoads(d.items[i])])
      [] OTHER ->
            PyDict([i \in 1..Len(d.keys) |-> PyStr(d.keys[i])],
                   [i \in 1..Len(d.items) |-> JsonLoads(d.items[i])])

\* The document Job.enqueue stores in model.data (sort_keys=True)
EnqueueData(function, args, kwargs) ==
    JsonDumps(PyDict(<<PyStr("args"), PyStr("function"), PyStr("kwargs")>>,
                     <<args, PyStr(function), kwargs>>))

\* The values a call may carry
Scalars == {PyStr("a"), PyInt("1"), PyDatetime("2020-01-01 00:00:00")}
Containers ==
    {PyTuple(<<x>>) : x \in Scalars} \cup {PyList(<<x>>) : x \in Scalars}
        \cup {PyDict(<<k>>, <<x>>) : k \in {PyStr("k"), PyInt("1")}, x \in Scalars}
ArgValues == Scalars \cup Containers
\* *args is a tuple, **kwargs a dict with string keys
ArgTuples == {PyTuple(items) : items \in SeqsUpTo(ArgValues, MaxArgs)}
KwargDicts == {PyDict(<<>>, <<>>)} \cup {PyDict(<<PyStr("k")>>, <<x>>) : x \in ArgValues}
NoCall == [function |-> "", args |-> PyTuple(<<>>), kwargs |-> PyDict(<<>>, <<>>)]
NoDocument == JsonString("")
NoValue == PyStr("")

\* ------------------------------------------------------------------ frames
\* One wrapper invocation in progress:
\*   k    "job" (inline branch), "step", "enq" (enqueue branch)
\*   rec  the row this invocation started (job) or created (step, enq)
\*   got  the exception a call made by the body raised and the body has
\*        not yet dealt with
\*   msg  the queue entry a worker's outermost frame runs (else 0)
\*   pre  the stored status of the job row when the invocation began
\*   fn   the wrapped function, where the wrapper uses it (enq)
Frame(k, rec, msg, pre, fn) ==
    [k |-> k, rec |-> rec, got |-> Nothing, msg |-> msg, pre |-> pre,
     fn |-> fn]

Top(p) == stack[p][Len(stack[p])]
Idle(p) == stack[p] = <<>>
InBody(p) == ~Idle(p) /\ Top(p).k \in {"job", "step"}

\* A place where the code of process p can call a wrapped operation
CanCall(p) ==
    /\ invoked < MaxInvocations
    /\ IF Idle(p) THEN p \in Handlers
       ELSE /\ InBody(p)
            /\ Top(p).got.t # "exc"
            /\ Len(stack[p]) < MaxDepth

\* A faulty wrapper: once it has recorded the failure of its body it runs
\* the body again instead of letting the error pass
EndedRetries(stk, out) ==
    LET f == stk[Len(stk)]
        rest == Front(stk)
    IN  IF out.t = "exc" /\ f.k \in {"job", "step"} /\ f.rec # 0 THEN stk
        ELSE IF rest = <<>> \/ out.t # "exc" THEN rest
        ELSE [rest EXCEPT ![Len(rest)].got = out]

\* The stack once the top invocation has ended with `out`
Ended(stk, out) ==
    LET rest == Front(stk)
    IN  IF rest = <<>> \/ out.t # "exc" THEN rest
        ELSE [rest EXCEPT ![Len(rest)].got = out]

\* What is observed of an invocation as it ends
Observed(k, rec, body, out, status, data, p) ==
    [p |-> p, k |-> k, rec |-> rec, body |-> body, out |-> out,
     status |-> status, data |-> data, depth |-> Len(stack[p])]
NoLast ==
    [p |-> "", k |-> "none", rec |-> 0, body |-> Nothing, out |-> Nothing,
     status |-> "", data |-> <<>>, depth |-> 0]

\* ------------------------------------------------------- executor actions
\* The times at which execute may be called
StartTimes == {0, 1}

ExecStart ==
    /\ epc = "parse"
    /\ child \in [stream : SeqsUpTo(Chars, MaxStream),
                  retcode : 0..MaxRetcode,
                  remove_crs : BOOLEAN]
    /\ unread = child.stream
    /\ lines = <<>>
    /\ line = <<>>
    /\ parsed = <<>>
    /\ outcome = NoOutcome
    \* start = datetime.now()
    /\ etime \in StartTimes
    /\ edata = [start |-> etime]

\* for char in iter(partial(process.stdout.read, 1), ""): one character
ReadChar ==
    /\ UNCHANGED <<jobVars, codecVars>>
    /\ epc = "parse"
    /\ unread # <<>>
    /\ LET r == ParseChar(lines, line, Head(unread))
       IN  /\ lines' = r.lines
           /\ line' = r.line
    /\ unread' = Tail(unread)
    \* the child takes time to write
    /\ etime' = etime + 1
    /\ UNCHANGED <<epc, child, parsed, outcome, edata>>

\* read(1) returns nothing and the child has exited: break, join the lines
EndOfStream ==
    /\ UNCHANGED <<jobVars, codecVars>>
    /\ epc = "parse"
    /\ unread = <<>>
    /\ parsed' = Join(lines)
    /\ epc' = "poll"
    /\ UNCHANGED <<child, unread, lines, line, outcome, etime, edata>>

\* run_subprocess checks the exit status; execute builds its result
Execute ==
    /\ UNCHANGED <<jobVars, codecVars>>
    /\ epc = "poll"
    /\ outcome' = ExecuteOutcome(parsed, child.retcode, child.remove_crs,
                                 edata.start, etime)
    /\ epc' = "done"
    /\ UNCHANGED <<child, unread, lines, line, parsed, etime, edata>>

\* ---------------------------------------------------------- payload actions
CodecStart ==
    /\ cpc = "call"
    /\ call \in [function : {op.function : op \in JobOps},
                 args : ArgTuples,
                 kwargs : KwargDicts]
    /\ payload = NoDocument
    /\ decoded = NoValue

\* Job.enqueue(name, function, args, kwargs): self.model.data = json.dumps(...)
WritePayload ==
    /\ UNCHANGED <<execVars, jobVars>>
    /\ cpc = "call"
    /\ payload' = EnqueueData(call.function, call.args, call.kwargs)
    /\ cpc' = "stored"
    /\ UNCHANGED <<call, decoded>>

\* The stored payload is read back
ReadPayload ==
    /\ UNCHANGED <<execVars, jobVars>>
    /\ cpc = "stored"
    /\ decoded' = JsonLoads(payload)
    /\ cpc' = "loaded"
    /\ UNCHANGED <<call, payload>>

\* ------------------------------------------------- instrumentation actions
JobInit ==
    /\ jobs = <<>>
    /\ steps = <<>>
    /\ queue = <<>>
    /\ stack = [p \in Procs |-> <<>>]
    /\ jobRec = [p \in Procs |-> NoModel]
    /\ stepRec = [p \in Procs |-> NoStepModel]
    /\ invoked = 0
    /\ now = 0
    /\ last = NoLast

\* `raise e` in the wrappers' except clauses
Reraise(e) == e
\* `return result` in the wrappers
ReturnResult(v) == Value(v)
\* `return instance.job_record.model.id` in the enqueue branch
ReturnId(m) == Id(m.id)

\* The queue once the outermost invocation of a worker has ended
Released(q, p, stk) ==
    IF InWorker(p) /\ Len(stk) = 1 THEN [q EXCEPT ![stk[1].msg].busy = FALSE] ELSE q

\* job wrapper, outside worker context, first half:
\*   instance.job_record.enqueue(name, wrapped, args, kwargs)
CallJobEnqueue(p, op) ==
    /\ UNCHANGED <<execVars, codecVars>>
    \* the budget counts the call and the first delivery of what it queues
    /\ invoked + 2 <= MaxInvocations
    /\ invoked' = invoked + 2
    /\ ~InWorker(p)
    /\ CanCall(p)
    /\ Len(jobs) < MaxJobs
    /\ UNCHANGED now
    /\ LET new == JobEnqueue(op, "args", now)
           m == SavedJob(jobs, new)
       IN  /\ jobs' = SaveJob(jobs, new)
           /\ jobRec' = [jobRec EXCEPT ![p] = m]
           /\ stack' = [stack EXCEPT ![p] =
                          Append(@, Frame("enq", m.id, 0, "", op.function))]
    /\ last' = NoLast
    /\ UNCHANGED <<steps, queue, stepRec>>

\* second half: queue().enqueue_call(wrapped, args=..., kwargs=...) pickles
\* the bound method, that is the entity with its records, and the wrapper
\* returns the id
Submit(p) ==
    /\ UNCHANGED <<execVars, codecVars>>
    /\ UNCHANGED invoked
    /\ ~Idle(p)
    /\ Top(p).k = "enq"
    /\ LET f == Top(p)
           out == ReturnId(jobRec[p])
       IN  /\ queue' = (f.rec :> [fn |-> f.fn, args |-> "args", job |-> jobRec[p],
                                  step |-> stepRec[p], n |-> 0, busy |-> FALSE]) @@ queue
           /\ stack' = [stack EXCEPT ![p] = Ended(@, out)]
           /\ last' =
                         Observed("enq", f.rec, Nothing, out, jobs[f.rec].status,
                                  jobs[f.rec].data, p)
    /\ UNCHANGED <<jobs, steps, jobRec, stepRec, now>>

\* enqueue_call raises (the broker cannot be reached): the error leaves
\* the wrapper, nothing else is done
SubmitFails(p) ==
    /\ UNCHANGED <<execVars, codecVars>>
    /\ UNCHANGED invoked
    /\ ~Idle(p)
    /\ Top(p).k = "enq"
    /\ LET f == Top(p)
           out == Exc("ConnectionError", Len(stack[p]))
       IN  /\ stack' = [stack EXCEPT ![p] = Ended(@, out)]
           /\ last' =
                         Observed("enq", f.rec, Nothing, out, jobs[f.rec].status,
                                  jobs[f.rec].data, p)
    /\ UNCHANGED <<jobs, steps, queue, jobRec, stepRec, now>>

\* A worker takes a queue entry: it unpickles the entity and calls the
\* method, whose wrapper now takes the inline branch and starts the record
WorkerRun(w, j) ==
    /\ UNCHANGED <<execVars, codecVars>>
    /\ InWorker(w)
    /\ Idle(w)
    /\ j \in DOMAIN queue
    \* a first delivery is already counted; a redelivery is counted here
    /\ queue[j].n > 0 => invoked < MaxInvocations
    /\ invoked' = IF queue[j].n > 0 THEN invoked + 1 ELSE invoked
    /\ ~queue[j].busy
    /\ queue[j].n < MaxDeliveries
    /\ UNCHANGED now
    /\ LET m == JobStart(queue[j].job, now)
       IN  /\ jobRec' = [jobRec EXCEPT ![w] = m]
           /\ stepRec' = [stepRec EXCEPT ![w] = queue[j].step]
           /\ jobs' = SaveJob(jobs, m)
           /\ stack' = [stack EXCEPT ![w] =
                          <<Frame("job", m.id, j, jobs[m.id].status, "")>>]
    /\ queue' = [queue EXCEPT ![j].busy = TRUE, ![j].n = @ + 1]
    /\ last' = NoLast
    /\ UNCHANGED steps

\* job wrapper, inside worker context, called by a running body:
\*   instance.job_record.start()
CallJobInline(p) ==
    /\ UNCHANGED <<execVars, codecVars>>
    /\ invoked' = invoked + 1
    /\ InWorker(p)
    /\ CanCall(p)
    /\ UNCHANGED now
    /\ LET m == JobStart(jobRec[p], now)
       IN  /\ jobRec' = [jobRec EXCEPT ![p] = m]
           /\ jobs' = SaveJob(jobs, m)
           /\ stack' = [stack EXCEPT ![p] =
                          Append(@,
                                 Frame("job", m.id, 0, jobs[m.id].status, ""))]
    /\ last' = NoLast
    /\ UNCHANGED <<steps, queue, stepRec>>

\* step wrapper: instance.step_record.start(name, instance.job_record.model.id)
CallStep(p, name) ==
    /\ UNCHANGED <<execVars, codecVars>>
    /\ invoked' = invoked + 1
    /\ CanCall(p)
    /\ jobRec[p].id # 0
    /\ Len(steps) < MaxSteps
    /\ UNCHANGED now
    /\ LET new == StepStart(name, jobRec[p].id, now)
           m == SavedStep(steps, new)
       IN  /\ steps' = SaveStep(steps, new)
           /\ stepRec' = [stepRec EXCEPT ![p] = m]
           /\ stack' = [stack EXCEPT ![p] =
                          Append(@,
                                 Frame("step", m.id, 0, jobs[jobRec[p].id].status, ""))]
    /\ last' = NoLast
    /\ UNCHANGED <<jobs, queue, jobRec>>

\* step wrapper on an entity whose job_record has no model yet: reading
\* instance.job_record.model raises AttributeError before anything is stored
CallStepNoJob(p) ==
    /\ UNCHANGED <<execVars, codecVars>>
    /\ invoked' = invoked + 1
    /\ CanCall(p)
    /\ jobRec[p].id = 0
    /\ LET out == Exc("AttributeError", Len(stack[p]) + 1)
       IN  /\ stack' = [stack EXCEPT ![p] = Ended(Append(@, Frame("step", 0, 0, "", "")), out)]
           /\ last' = Observed("step", 0, Nothing, out, "", <<>>, p)
    /\ UNCHANGED <<jobs, steps, queue, jobRec, stepRec, now>>

\* The body of a step-wrapped operation returns v:
\*   instance.step_record.success(result); return result
StepReturn(p, v) ==
    /\ UNCHANGED <<execVars, codecVars>>
    /\ UNCHANGED invoked
    /\ UNCHANGED now
    /\ InBody(p)
    /\ Top(p).k = "step"
    /\ Top(p).got.t # "exc"
    /\ LET f == Top(p)
           m == End(Success(stepRec[p], ResultData(v)), now)
           out == ReturnResult(v)
           table == SaveStep(steps, m)
       IN  /\ steps' = table
           /\ stepRec' = [stepRec EXCEPT ![p] = m]
           /\ stack' = [stack EXCEPT ![p] = Ended(@, out)]
           /\ last' =
                         Observed("step", f.rec, Value(v), out, table[f.rec].status,
                                  table[f.rec].data, p)
    /\ UNCHANGED <<jobs, queue, jobRec>>

\* Error e leaves the body of a step-wrapped operation:
\*   instance.step_record.failure(...); raise e
StepFails(p, e) ==
    /\ UNCHANGED <<execVars, codecVars>>
    /\ UNCHANGED invoked
    /\ UNCHANGED now
    /\ InBody(p)
    /\ Top(p).k = "step"
    /\ LET f == Top(p)
           m == End(Failure(stepRec[p], FailureData(e)), now)
           out == Reraise(e)
           table == SaveStep(steps, m)
       IN  /\ steps' = table
           /\ stepRec' = [stepRec EXCEPT ![p] = m]
           /\ stack' = [stack EXCEPT ![p] = Ended(@, out)]
           /\ last' =
                         Observed("step", f.rec, e, out, table[f.rec].status,
                                  table[f.rec].data, p)
    /\ UNCHANGED <<jobs, queue, jobRec>>

\* The body of an inline job returns v:
\*   instance.job_record.success(result); return result
JobReturn(p, v) ==
    /\ UNCHANGED <<execVars, codecVars>>
    /\ UNCHANGED invoked
    /\ UNCHANGED now
    /\ InBody(p)
    /\ Top(p).k = "job"
    /\ Top(p).got.t # "exc"
    /\ LET f == Top(p)
           m == End(Success(jobRec[p], ResultData(v)), now)
           out == ReturnResult(v)
           table == SaveJob(jobs, m)
       IN  /\ jobs' = table
           /\ jobRec' = [jobRec EXCEPT ![p] = m]
           /\ stack' = [stack EXCEPT ![p] = Ended(@, out)]
           /\ last' =
                         Observed("job", f.rec, Value(v), out, table[f.rec].status,
                                  table[f.rec].data, p)
    /\ queue' = Released(queue, p, stack[p])
    /\ UNCHANGED <<steps, stepRec>>

\* Error e leaves the body of an inline job:
\*   instance.job_record.failure(...); raise e
JobFails(p, e) ==
    /\ UNCHANGED <<execVars, codecVars>>
    /\ UNCHANGED invoked
    /\ UNCHANGED now
    /\ InBody(p)
    /\ Top(p).k = "job"
    /\ LET f == Top(p)
           m == End(Failure(jobRec[p], FailureData(e)), now)
           out == Reraise(e)
           table == SaveJob(jobs, m)
       IN  /\ jobs' = table
           /\ jobRec' = [jobRec EXCEPT ![p] = m]
           /\ stack' = [stack EXCEPT ![p] = Ended(@, out)]
           /\ last' =
                         Observed("job", f.rec, e, out, table[f.rec].status,
                                  table[f.rec].data, p)
    /\ queue' = Released(queue, p, stack[p])
    /\ UNCHANGED <<steps, stepRec>>

\* The body itself raises
StepRaise(p, kind) ==
    /\ InBody(p) /\ Top(p).got.t # "exc"
    /\ StepFails(p, Exc(kind, Len(stack[p])))
JobRaise(p, kind) ==
    /\ InBody(p) /\ Top(p).got.t # "exc"
    /\ JobFails(p, Exc(kind, Len(stack[p])))

\* The body does not catch the exception of a call it made
StepPropagate(p) ==
    /\ InBody(p) /\ Top(p).got.t = "exc"
    /\ StepFails(p, Top(p).got)
JobPropagate(p) ==
    /\ InBody(p) /\ Top(p).got.t = "exc"
    /\ JobFails(p, Top(p).got)

\* The body catches the exception of a call it made and goes on
Catch(p) ==
    /\ UNCHANGED <<execVars, codecVars>>
    /\ UNCHANGED invoked
    /\ InBody(p)
    /\ Top(p).got.t = "exc"
    /\ stack' = [stack EXCEPT ![p][Len(stack[p])].got = Nothing]
    /\ last' = NoLast
    /\ UNCHANGED <<jobs, steps, queue, jobRec, stepRec, now>>

\* Time passes: the next datetime.datetime.now() reads a later value
Tick ==
    /\ UNCHANGED <<execVars, codecVars>>
    /\ now < MaxTime
    /\ now' = now + 1
    /\ last' = NoLast
    /\ UNCHANGED <<jobs, steps, queue, stack, jobRec, stepRec, invoked>>

JobStep(p) ==
        \/ \E op \in JobOps : CallJobEnqueue(p, op)
        \/ Submit(p)
        \/ SubmitFails(p)
        \/ \E j \in 1..MaxJobs : WorkerRun(p, j)
        \/ CallJobInline(p)
        \/ \E name \in StepOps : CallStep(p, name)
        \/ CallStepNoJob(p)
        \/ \E v \in Results : StepReturn(p, v)
        \/ \E v \in Results : JobReturn(p, v)
        \/ \E kind \in BodyErrors : StepRaise(p, kind)
        \/ \E kind \in BodyErrors : JobRaise(p, kind)
        \/ StepPropagate(p)
        \/ JobPropagate(p)
        \/ Catch(p)

\* ----------------------------------------------------------- specifications
ExecIdle ==
    /\ epc = "idle"
    /\ child = [stream |-> <<>>, retcode |-> 0, remove_crs |-> TRUE]
    /\ unread = <<>>
    /\ lines = <<>>
    /\ line = <<>>
    /\ parsed = <<>>
    /\ outcome = NoOutcome
    /\ etime = 0
    /\ edata = [start |-> Absent]

CodecIdle ==
    /\ cpc = "idle"
    /\ call = NoCall
    /\ payload = NoDocument
    /\ decoded = NoValue

Init == JobInit /\ ExecIdle /\ CodecIdle
\* Spec: one request handler and one worker
SpecProcs == {"h1", "w1"}
Next == \E p \in SpecProcs : JobStep(p)
Spec == Init /\ [][Next]_vars

\* LiveSpec: the same system when every process keeps running: a call in
\* progress goes on, the broker delivers and the worker works.  Whether a
\* handler receives another request is left open.
Continue(p) == (~Idle(p) \/ InWorker(p)) /\ JobStep(p)
LiveSpec == Spec /\ \A p \in SpecProcs : WF_vars(Continue(p))

ExecNext == ReadChar \/ EndOfStream \/ Execute

\* ExecSpec: one execute call on every stream and exit status within the bounds
ExecInit == ExecStart /\ JobInit /\ CodecIdle
ExecSpec == ExecInit /\ [][ExecNext]_vars

\* TimeSpec: Spec with a clock that advances
TimeNext == Tick \/ Next
TimeSpec == Init /\ [][TimeNext]_vars

\* ConcSpec: the request handler and two workers, with the clock
ConcNext == Tick \/ \E p \in Procs : JobStep(p)
ConcSpec == Init /\ [][ConcNext]_vars

\* CodecSpec: the payload of every call within the bounds, written and read
CodecNext == WritePayload \/ ReadPayload
CodecInit == CodecStart /\ JobInit /\ ExecIdle
CodecSpec == CodecInit /\ [][CodecNext]_vars

\* ================================================================== claims

\* ---- C9 (ExecSpec) -------------------------------------------------------
\* What a terminal shows of a stream: one entry per newline, each entry the
\* text written since the most recent carriage return or newline.
RECURSIVE TerminalLines(_, _, _)
TerminalLines(s, shown, current) ==
    IF s = <<>> THEN shown
    ELSE IF Head(s) = LF THEN TerminalLines(Tail(s), Append(shown, current), <<>>)
    ELSE IF Head(s) = CR THEN TerminalLines(Tail(s), shown, <<>>)
    ELSE TerminalLines(Tail(s), shown, Append(current, Head(s)))

\* C9: for every finite stream the captured output is the newline-joined
\* list of the terminal's lines; a carriage return never alters a line an
\* earlier newline committed.
C9_OutputIsTerminalView ==
    epc \in {"poll", "done"} =>
        parsed = Join(TerminalLines(child.stream, <<>>, <<>>))

\* ---- C10 (ExecSpec) ------------------------------------------------------
\* C10: execute raises a CommandFailure exactly when the exit status is not
\* zero; the failure carries the exit code, a stack trace and the output a
\* successful run of the same stream returns; on zero exit execute returns
\* a CommandResult without an exit code.
C10_FailureIffNonZeroExit ==
    epc = "done" =>
        /\ (outcome.kind = "AgentException") <=> (child.retcode # 0)
        /\ child.retcode # 0 =>
              /\ outcome.returncode = child.retcode
              /\ "traceback" \in outcome.keys
              /\ outcome.output =
                    ExecuteOutcome(parsed, 0, child.remove_crs,
                                   edata.start, etime).output
        /\ child.retcode = 0 =>
              /\ outcome.kind = "CommandResult"
              /\ "returncode" \notin outcome.keys

\* ---- C16 (ExecSpec) ------------------------------------------------------
\* The data carries both readings of the clock and their difference
Timed(o) ==
    /\ {"start", "end", "duration"} \subseteq o.keys
    /\ o.start = edata.start
    /\ o.end = etime
    /\ o.duration = o.end - o.start

\* C16: execute always captures start and end timestamps and a duration
\* equal to end - start: on zero exit in the CommandResult it returns, on
\* non-zero exit in the data of the CommandFailure it raises.
C16_TimestampsAlwaysCaptured ==
    epc = "done" =>
        /\ child.retcode = 0 => (outcome.kind = "CommandResult" /\ Timed(outcome))
        /\ child.retcode # 0 => (outcome.kind = "AgentException" /\ Timed(outcome))

\* ---- what a step of the system does to the invocations of process p ------
TopOf(stk) == stk[Len(stk)]
\* p begins an invocation of kind k in this step
Begins(p, k) ==
    /\ Len(stack'[p]) = Len(stack[p]) + 1
    /\ TopOf(stack'[p]).k = k
\* the innermost invocation of p, of kind k, ends in this step
Ends(p, k) ==
    /\ stack[p] # <<>>
    /\ TopOf(stack[p]).k = k
    /\ Len(stack'[p]) = Len(stack[p]) - 1
\* the job row that the innermost enclosing inline job of p started (0: none)
RECURSIVE EnclosingJob(_)
EnclosingJob(stk) ==
    IF stk = <<>> THEN 0
    ELSE IF TopOf(stk).k = "job" THEN TopOf(stk).rec
    ELSE EnclosingJob(Front(stk))

\* ---- C1 (Spec) -----------------------------------------------------------
Forward(a, b) ==
    \/ a = b
    \/ a = "Pending" /\ b = "Running"
    \/ a = "Running" /\ b \in Terminal

\* C1: the status of every Job and Step record only moves forward along
\* Pending -> Running -> {Success, Failure}; a record that is Success or
\* Failure never changes status again and is never re-started.
C1_StatusOnlyMovesForward ==
    [][/\ \A j \in DOMAIN jobs : Forward(jobs[j].status, jobs'[j].status)
       /\ \A i \in DOMAIN steps : Forward(steps[i].status, steps'[i].status)]_vars

\* ---- C2 (Spec) -----------------------------------------------------------
\* The first half of an enqueue-branch invocation: exactly one new row,
\* Pending, with the operation's name and its call; no step row, nothing
\* queued yet.
EnqueueRecords(p) ==
    Begins(p, "enq") =>
        /\ Len(jobs') = Len(jobs) + 1
        /\ \A j \in DOMAIN jobs : jobs'[j] = jobs[j]
        /\ TopOf(stack'[p]).rec = Len(jobs')
        /\ \E op \in JobOps :
              /\ jobs'[Len(jobs')].name = op.name
              /\ jobs'[Len(jobs')].status = "Pending"
              /\ jobs'[Len(jobs')].data = <<"call", op.function, "args">>
              /\ TopOf(stack'[p]).fn = op.function
        /\ steps' = steps
        /\ queue' = queue

\* The second half when the broker accepts the submission: one new queue
\* entry for that operation, the id of the new row is returned.
EnqueueSubmitsAndReturnsId(p) ==
    LET f == TopOf(stack[p])
    IN  /\ jobs' = jobs
        /\ steps' = steps
        /\ f.rec \notin DOMAIN queue
        /\ DOMAIN queue' = DOMAIN queue \cup {f.rec}
        /\ \A j \in DOMAIN queue : queue'[j] = queue[j]
        /\ queue'[f.rec].fn = f.fn
        /\ queue'[f.rec].job.id = f.rec
        /\ last'.out = Id(f.rec)

\* The second half when the submission raises: the error of the broker
\* reaches the caller, the Pending row stays, nothing is queued.
EnqueueSubmissionRaises(p) ==
    LET f == TopOf(stack[p])
    IN  /\ jobs' = jobs
        /\ steps' = steps
        /\ queue' = queue
        /\ last'.out.t = "exc"
        /\ last'.out.v = "ConnectionError"
        /\ jobs[f.rec].status = "Pending"

\* No request handler ever runs the body of a job-wrapped operation.
NoJobBodyInCaller ==
    \A p \in Handlers : \A i \in DOMAIN stack[p] : stack[p][i].k # "job"

InlineBegins(p) == Begins(p, "job")
FirstDelivery(p) ==
    /\ InlineBegins(p)
    /\ stack[p] = <<>>
    /\ queue[TopOf(stack'[p]).msg].n = 0

C4_FailedStepIsRecordedAndReraised ==
    (last.k = "step" /\ last.body.t = "exc") =>
        /\ last.status = "Failure"
        /\ last.data # <<>>
        /\ last.out = last.body

C7_StepCreatedOnlyInRunningJob ==
    \A p \in Procs : \A i \in DOMAIN stack[p] :
        stack[p][i].k = "step" => stack[p][i].pre = "Running"

\* ---- C8 (Spec) -----------------------------------------------------------
\* The outermost invocation of a worker, a dispatched job, ends with an error
DispatchedJobFails(w) ==
    /\ Ends(w, "job")
    /\ Len(stack[w]) = 1
    /\ last'.body.t = "exc"

\* C8: the failure of a dispatched job is never delivered to the caller that
\* enqueued it: the enqueueing call of a dispatched job returned the id, and
\* when the job fails in the worker the failure is stored as status Failure
\* with its payload on that job's JobRecord while no request handler
\* receives anything.
C8_AsyncFailureOnlyOnRecord ==
    [][/\ \A h \in Handlers :
            (Ends(h, "enq") /\ TopOf(stack[h]).rec \in DOMAIN queue') =>
                last'.out = Id(TopOf(stack[h]).rec)
       /\ \A w \in Workers :
            DispatchedJobFails(w) =>
                LET rec == TopOf(stack[w]).rec
                IN  /\ rec = TopOf(stack[w]).msg
                    /\ jobs'[rec].status = "Failure"
                    /\ jobs'[rec].data # <<>>
                    /\ jobs'[rec].data = FailureData(last'.body)
                    /\ last'.p = w
                    /\ \A h \in Handlers : stack'[h] = stack[h]]_vars

\* C8 witness: a dispatched job has just failed in a worker, its record is
\* Failure with the payload, and the handler that enqueued it is idle.
C8_Witness ==
    /\ last.k = "job"
    /\ last.p \in Workers
    /\ last.depth = 1
    /\ last.body.t = "exc"
    /\ jobs[last.rec].status = "Failure"
    /\ jobs[last.rec].data # <<>>
    /\ \A h \in Handlers : stack[h] = <<>>

\* ---- C11 (CodecSpec) ----------------------------------------------------
\* The entry of the decoded payload stored under key
RECURSIVE Entry(_, _, _)
Entry(d, key, i) ==
    IF i > Len(d.keys) THEN NoValue
    ELSE IF d.keys[i] = PyStr(key) THEN d.items[i]
    ELSE Entry(d, key, i + 1)

\* C11: for every operation and every args/kwargs value, the payload that
\* Job.enqueue wrote reads back as the same function, the same positional
\* arguments (as a sequence of values) and the same keyword arguments.
C11_EnqueueRoundTrip ==
    cpc = "loaded" =>
        /\ Entry(decoded, "function", 1) = PyStr(call.function)
        /\ Entry(decoded, "args", 1).items = call.args.items
        /\ Entry(decoded, "kwargs", 1) = call.kwargs

\* ---- C12 (Spec) ----------------------------------------------------------
\* The step rows of job j that are Running
RunningSteps(j) == {i \in DOMAIN steps : steps[i].job = j /\ steps[i].status = "Running"}

\* C12: at any moment at most one StepRecord of a given job is Running, and
\* the step rows of a job are created in the order in which the step-wrapped
\* operations are invoked: each invocation adds the row with the next id.
C12_StepsSequentialAndOrdered ==
    /\ [](\A j \in DOMAIN jobs : Cardinality(RunningSteps(j)) <= 1)
    /\ [][\A p \in Procs :
            Begins(p, "step") =>
                /\ Len(steps') = Len(steps) + 1
                /\ TopOf(stack'[p]).rec = Len(steps')
                /\ \A i \in DOMAIN steps : steps'[i].job = steps[i].job]_vars

\* ---- C13 (Spec) ----------------------------------------------------------
Elements(d) == {d[i] : i \in DOMAIN d}
\* The payload the taxonomy prescribes for an error of class kind
FollowsTaxonomy(kind, data) ==
    IF kind = "AgentException"
    THEN {"command", "directory", "output", "returncode", "duration",
          "traceback"} \subseteq Elements(data)
    ELSE data = <<"traceback">>

C14_ReturnedStepIsRecordedSuccess ==
    (last.k = "step" /\ last.body.t = "value") =>
        /\ last.status = "Success"
        /\ last.data = <<"result", last.body.v>>
        /\ last.out = last.body

\* ---- C15 (TimeSpec) ----------------------------------------------------------
\* The time columns of a row agree with each other and with its status
TimesConsistent(row) ==
    /\ row.end # None =>
          /\ row.start # None
          /\ row.end >= row.start
          /\ row.duration = row.end - row.start
    /\ (row.end # None) <=> (row.status \in Terminal)

\* C15: in every reachable state, a Job or Step record whose end time is set
\* also has its start time set, end >= start and duration = end - start; end
\* is set exactly when the status is Success or Failure.
C15_EndImpliesStartAndDuration ==
    /\ \A j \in DOMAIN jobs : TimesConsistent(jobs[j])
    /\ \A i \in DOMAIN steps : TimesConsistent(steps[i])

\* ---- C17 (Spec) ----------------------------------------------------------
\* A job-wrapped call made by a body that a worker is running
NestedJobBegins(w) == Begins(w, "job") /\ stack[w] # <<>>
NestedJobEnds(w) == Ends(w, "job") /\ Len(stack[w]) > 1

\* C17: a job-wrapped call made from inside a job that a worker is running
\* executes inline at any depth: it never takes the enqueue branch, it adds
\* no JobRecord and no queue entry, and it hands back what the inner
\* operation returned (or raised), never a record id.
C17_NestedJobRunsInline ==
    /\ [](\A w \in Workers : \A i \in DOMAIN stack[w] : stack[w][i].k # "enq")
    /\ [][\A w \in Workers :
            /\ NestedJobBegins(w) =>
                  /\ Len(jobs') = Len(jobs)
                  /\ queue' = queue
            /\ NestedJobEnds(w) =>
                  /\ last'.body.t \in {"value", "exc"}
                  /\ last'.out = last'.body
                  /\ Len(jobs') = Len(jobs)
                  /\ queue' = queue]_vars

\* C17 witness: a job-wrapped call two levels inside a dispatched job has
\* just returned its body's value; there is still one JobRecord and one
\* queue entry.
C17_Witness ==
    /\ last.k = "job"
    /\ last.p \in Workers
    /\ last.depth = 3
    /\ last.out = Value("r1")
    /\ \A i \in DOMAIN stack[last.p] : stack[last.p][i].k = "job"
    /\ Len(jobs) = 1
    /\ DOMAIN queue = {1}

\* ---- C18 (ConcSpec) ------------------------------------------------------
\* Process p takes the step
Acts(p) == stack'[p] # stack[p]
\* The job that worker w is running in this step: the row its outermost
\* invocation started
JobOf(w) ==
    IF stack[w] # <<>> THEN stack[w][1].rec
    ELSE IF stack'[w] # <<>> THEN stack'[w][1].rec
    ELSE 0

\* C18: with several workers running different queued jobs in any
\* interleaving, a worker running job J changes no column (status, payload,
\* timestamps) of another job's JobRecord nor of a StepRecord that belongs
\* to another job; the steps it creates belong to J; and when its run of J
\* ends, J's status is Success exactly when J's own body returned and
\* Failure exactly when it raised.
C18_WorkersWriteOnlyTheirOwnRecords ==
    [][\A w \in Workers :
          Acts(w) =>
            /\ \A j \in DOMAIN jobs : j # JobOf(w) => jobs'[j] = jobs[j]
            /\ \A i \in DOMAIN steps :
                  steps[i].job # JobOf(w) => steps'[i] = steps[i]
            /\ Len(jobs') = Len(jobs)
            /\ \A i \in DOMAIN steps' \ DOMAIN steps : steps'[i].job = JobOf(w)
            /\ (Ends(w, "job") /\ Len(stack[w]) = 1) =>
                  /\ (jobs'[JobOf(w)].status = "Success") <=> (last'.body.t = "value")
                  /\ (jobs'[JobOf(w)].status = "Failure") <=> (last'.body.t = "exc")]_vars

\* C18 witness: two workers run different jobs at the same time; one has
\* just failed its job at a later time than it was enqueued, while the other
\* is inside a step of its own job, which is still Running.
C18_Witness ==
    \E w \in Workers :
        /\ last.k = "job"
        /\ last.p \in Workers \ {w}
        /\ last.depth = 1
        /\ jobs[last.rec].status = "Failure"
        /\ jobs[last.rec].end > jobs[last.rec].enqueue
        /\ stack[w] # <<>>
        /\ stack[w][1].rec # last.rec
        /\ Top(w).k = "step"
        /\ steps[Top(w).rec].job = stack[w][1].rec
        /\ steps[Top(w).rec].status = "Running"
        /\ jobs[stack[w][1].rec].status = "Running"

\* ---- C19 (Spec) ----------------------------------------------------------
\* A step called by the body of an inline job ends with an error
StepOfJobFails(p) ==
    /\ Ends(p, "step")
    /\ Len(stack[p]) >= 2
    /\ stack[p][Len(stack[p]) - 1].k = "job"
    /\ last'.body.t = "exc"
\* The body of an inline job lets the error of a call pass
JobLetsErrorPass(p) == Ends(p, "job") /\ TopOf(stack[p]).got.t = "exc"

\* C19: when a step inside an inline job fails and the job body does not
\* catch the error, first the StepRecord of that step is stored as Failure
\* with the failure's data and the error reaches the job body unchanged;
\* then the JobRecord is stored as Failure with the data of that same error,
\* which the job wrapper re-raises; and a body in which an error is pending
\* starts no further step.
C19_StepFailureRecordedOnStepAndJob ==
    [][\A p \in Workers :
          /\ StepOfJobFails(p) =>
                LET rec == TopOf(stack[p]).rec
                IN  /\ steps'[rec].status = "Failure"
                    /\ steps'[rec].data = FailureData(last'.body)
                    /\ TopOf(stack'[p]).got = last'.body
          /\ JobLetsErrorPass(p) =>
                LET rec == TopOf(stack[p]).rec
                IN  /\ jobs'[rec].status = "Failure"
                    /\ jobs'[rec].data = FailureData(TopOf(stack[p]).got)
                    /\ last'.out = TopOf(stack[p]).got
                    /\ steps' = steps
          /\ Begins(p, "step") => TopOf(stack[p]).got.t # "exc"]_vars

\* ---- C20 (Spec) ----------------------------------------------------------
\* C20: when a step wrapper returns or raises, the StepRecord created by
\* that same invocation is Success or Failure; so once a job's record is
\* Success or Failure no StepRecord of that job is still Running.
C20_StepWrapperFinishesItsRecord ==
    /\ (last.k = "step" /\ last.body.t \in {"value", "exc"}) =>
          last.status \in Terminal
    /\ \A j \in DOMAIN jobs :
          jobs[j].status \in Terminal => RunningSteps(j) = {}

\* ---- C21 (Spec) ----------------------------------------------------------
\* Two frames are the same invocation: they differ at most in the error of
\* a call that the body has yet to deal with
SameInvocation(f, g) == [f EXCEPT !.got = Nothing] = [g EXCEPT !.got = Nothing]
\* The wrapper of p has recorded the failure of its body in this step
RecordsFailure(p) ==
    /\ last'.p = p
    /\ last'.k \in {"step", "job"}
    /\ last'.body.t = "exc"
\* How often each queue entry has been handed to a worker
Deliveries(q) == [j \in DOMAIN q |-> q[j].n]

\* C21: the core never retries.  An invocation in progress is never
\* replaced or begun anew in place, so its body runs once; and the step in
\* which a wrapper records the failure of its body ends that invocation,
\* hands the error to the caller, begins no invocation and leaves the queue
\* as it is: nothing is submitted and nothing is delivered again.
C21_NoRetry ==
    [][\A p \in Procs :
          /\ \A i \in DOMAIN stack[p] \cap DOMAIN stack'[p] :
                SameInvocation(stack[p][i], stack'[p][i])
          /\ Len(stack'[p]) <= Len(stack[p]) + 1
          /\ RecordsFailure(p) =>
                /\ IF last'.k = "step"
                   THEN steps'[stepRec'[p].id].status = "Failure"
                   ELSE jobs'[jobRec'[p].id].status = "Failure"
                /\ Len(stack'[p]) = Len(stack[p]) - 1
                /\ last'.out = last'.body
                /\ invoked' = invoked
                /\ Len(jobs') = Len(jobs)
                /\ Len(steps') = Len(steps)
                /\ Deliveries(queue') = Deliveries(queue)]_vars

\* C21 witness: a dispatched job has failed once in a worker: its record is
\* Failure, the worker is idle again, the queue entry has been delivered
\* once and is not being run.
C21_Witness ==
    /\ last.k = "job"
    /\ last.p \in Workers
    /\ last.body.t = "exc"
    /\ last.out = last.body
    /\ stack[last.p] = <<>>
    /\ jobs[last.rec].status = "Failure"
    /\ queue[last.rec].n = 1
    /\ ~queue[last.rec].busy

\* ---- C22 (Spec) ----------------------------------------------------------
\* The invocations of the enqueue branch that have saved and not yet submitted
Submitting(p) == {i \in DOMAIN stack[p] : stack[p][i].k = "enq"}

\* C22: the Pending JobRecord is stored before the operation is queued.
\* Between the save and the submission the row exists, is Pending and has no
\* queue entry; every queue entry carries the id of a stored row; and the
\* job a worker is running was taken from the queue and has its row.
C22_RecordStoredBeforeQueued ==
    /\ \A p \in Procs : \A i \in Submitting(p) :
          /\ stack[p][i].rec \in DOMAIN jobs
          /\ stack[p][i].rec \notin DOMAIN queue
          /\ jobs[stack[p][i].rec].status = "Pending"
    /\ \A j \in DOMAIN queue :
          /\ j \in DOMAIN jobs
          /\ queue[j].job.id = j
          /\ queue[j].n = 0 => ~queue[j].busy
    /\ \A w \in Workers :
          IF Idle(w) THEN TRUE
          ELSE /\ stack[w][1].k = "job"
               /\ stack[w][1].msg \in DOMAIN queue
               /\ stack[w][1].rec = stack[w][1].msg
               /\ stack[w][1].rec \in DOMAIN jobs
               /\ jobs[stack[w][1].rec].status # "Pending"

\* C22 witness: a handler has saved the record of a second job and has not
\* submitted it yet, while a worker runs the first job it queued.
C22_Witness ==
    /\ \E h \in Handlers : \E i \in Submitting(h) :
          /\ stack[h][i].rec = 2
          /\ jobs[2].status = "Pending"
          /\ 2 \notin DOMAIN queue
    /\ \E w \in Workers :
          /\ ~Idle(w)
          /\ stack[w][1].rec = 1
          /\ queue[1].busy
          /\ jobs[1].status = "Running"

\* ---- C5 (LiveSpec) -------------------------------------------------------
\* C5: every JobRecord that is Pending or Running eventually reaches Success
\* or Failure, given that the broker delivers and the workers keep running.
C5_EnqueuedJobEventuallyFinishes ==
    \A j \in 1..MaxJobs :
        (j \in DOMAIN jobs /\ jobs[j].status \in {"Pending", "Running"})
            ~> (j \in DOMAIN jobs /\ jobs[j].status \in Terminal)

====
